---- MODULE Spec2Model ----
(***************************************************************************)
(* Model of sir3d.synth.multiprocessing.Iterator: the READY / START /      *)
(* DONE / EXIT dispatch protocol between the master (rank 0) and the       *)
(* agents (rank > 0), the pixel partition built by the master, and the     *)
(* serial loop of nonmpi_work.                                             *)
(*                                                                         *)
(* MPI point-to-point messages between one pair of ranks do not overtake   *)
(* each other, so every agent has one FIFO queue towards the master and    *)
(* one from it.  comm.send is modelled as buffered (the sender goes on);   *)
(* a rendezvous send only removes interleavings.                           *)
(*                                                                         *)
(* The physics model (synth / synth2d) is a deterministic function of the  *)
(* column it is given; a column is the symbolic record Column(...).        *)
(***************************************************************************)
EXTENDS Integers, Sequences, FiniteSets, TLC

\* ------------------------------------------------------------------ bounds
\* largest number of pixels of the grid (nx * ny)
MaxPixels == 5
\* largest configured batch size
MaxBatch == 2
\* largest number of batches of a distributed run
MaxBatches == 3
\* largest number of MPI processes (the master and the agents)
MaxSize == 3
\* most rows and columns a sub-rectangle restriction cuts off the grid
MaxTrim == 2
\* largest side of the grids the partition alone is tried on
MaxSide == 4
\* largest batch size the partition alone is tried with
MaxPartBatch == 5
\* largest product of the number of agents and the number of batches of a
\* distributed run
MaxWork == 6
\* how far past an end of its axis a sub-rectangle restriction reaches
MaxOver == 1

\* -------------------------------------------------------------------- tags
READY == 0
DONE == 1
EXIT == 2
START == 3

VARIABLES
    run,             \* arguments of the run: use_mpi, size, batch, nx, ny,
                     \* rangex, rangey, vz_type, interpolate
    mpc,             \* position of rank 0 in run_all_pixels
    n_batches,       \* self.n_batches
    divX, divY,      \* the batches' X and Y coordinate sequences
    task_index,      \* batch cursor of the dispatch loop
    closed_workers,  \* closed-worker counter of the dispatch loop
    index,           \* the local `index` of rank 0: <<>> while unbound
    stokes,          \* the local `stokes` of rank 0: <<>> while unbound
    cursor,          \* <<iy, ix>> of the serial loop
    f_stokes_out,    \* "none", "open" or "closed"
    f_model_out,     \* "none", "open" or "closed"
    stokes_db,       \* the I, Q, U, V datasets: cell -> <<>> or <<spectrum>>
    lambda_db,       \* the spectral-axis dataset: <<>> or <<axis>>
    model_db,        \* index tuples of the resampled-model dataset written
    wpc,             \* position of every agent in mpi_agents_work
    data_received,   \* the task an agent is working on: <<>> or <<message>>
    to_master,       \* agent -> FIFO of messages sent to rank 0
    to_agent,        \* agent -> FIFO of messages sent by rank 0
    n_writes,        \* history: cell -> number of writes to stokes_db
    lambda_log,      \* history: where each write to lambda_db came from
    start_log,       \* history: batch indices of the START messages, in order
    n_exit,          \* history: agent -> number of EXIT messages sent to it
    n_done,          \* history: batch index -> number of DONE messages handled
    synth_in,        \* history: cell -> <<>> or <<column given to the physics>>
    ref,             \* <<>>, or <<the outcome of the serial run on this input>>
    self_model,      \* rank -> self.model: "none", "model", or "ready" once
                     \* init_sir has rebuilt its derived state
    bcast_buf        \* the agents the broadcast model is on its way to

vars == <<run, mpc, n_batches, divX, divY, task_index, closed_workers, index,
          stokes, cursor, f_stokes_out, f_model_out, stokes_db, lambda_db,
          model_db, wpc, data_received, to_master, to_agent, n_writes,
          lambda_log, start_log, n_exit, n_done, synth_in, ref, self_model,
          bcast_buf>>

partVars == <<n_batches, divX, divY>>
loopVars == <<task_index, closed_workers, index, stokes>>
fileVars == <<f_stokes_out, f_model_out>>
dataVars == <<stokes_db, model_db, n_writes>>
axisVars == <<lambda_db, lambda_log>>
agentVars == <<wpc, data_received, synth_in>>
chanVars == <<to_master, to_agent>>
logVars == <<start_log, n_exit, n_done>>
useVars == <<self_model, bcast_buf>>

\* ------------------------------------------------------- numpy primitives
Max(a, b) == IF a >= b THEN a ELSE b
Min(a, b) == IF a <= b THEN a ELSE b

\* np.arange(lo, hi): lo, lo+1, ..., hi-1; empty when hi <= lo
arange(lo, hi) == [i \in 1..Max(0, hi - lo) |-> lo + i - 1]

\* a variant of meshX that walks the grid column by column
meshX_by_columns(x, y) ==
    [k \in 1..(Len(x) * Len(y)) |-> x[((k - 1) \div Len(y)) + 1]]

\* X of np.meshgrid(x, y), flattened in C order: x repeated once per row
meshX(x, y) == [k \in 1..(Len(x) * Len(y)) |-> x[((k - 1) % Len(x)) + 1]]

\* Y of np.meshgrid(x, y), flattened in C order: every y repeated len(x) times
meshY(x, y) == [k \in 1..(Len(x) * Len(y)) |-> y[((k - 1) \div Len(x)) + 1]]

\* a variant of div_point that gives every part total \div sections elements
\* and leaves the remainder out
div_point_floor(total, sections, i) == i * (total \div sections)

\* np.array_split: division point i (0-based) of an array of `total` elements
\* cut into `sections`: the first total % sections parts get one element more
div_point(total, sections, i) ==
    i * (total \div sections) + Min(i, total % sections)

\* a variant of array_split whose parts after the first start one element
\* early, on the last element of the part before
array_split_overlap(ary, sections) ==
    [i \in 1..sections |->
        SubSeq(ary, Max(1, div_point(Len(ary), sections, i - 1)),
                    div_point(Len(ary), sections, i))]

\* np.array_split(ary, sections), for sections >= 1 (the caller raises
\* ValueError otherwise)
array_split(ary, sections) ==
    [i \in 1..sections |->
        SubSeq(ary, div_point(Len(ary), sections, i - 1) + 1,
                    div_point(Len(ary), sections, i))]

\* an index numpy and h5py accept on an axis of length n
InAxis(i, n) == -n <= i /\ i < n

\* the position an accepted index addresses: negative indices count from
\* the end
Wrap(i, n) == IF i < 0 THEN i + n ELSE i

\* ------------------------------------------------------------- the input
NoRange == [given |-> FALSE, lo |-> 0, hi |-> 0]

Range(lo, hi) == [given |-> TRUE, lo |-> lo, hi |-> hi]

nx == run.nx
ny == run.ny
rangex == run.rangex
rangey == run.rangey
num_workers == run.size - 1
Agents == IF run.use_mpi THEN 1..num_workers ELSE {}
Cells == (0..(ny - 1)) \X (0..(nx - 1))

\* x of mpi_master_work
xs == IF rangex.given THEN arange(rangex.lo, rangex.hi) ELSE arange(0, nx)

\* y of mpi_master_work
ys == IF rangey.given THEN arange(rangey.lo, rangey.hi) ELSE arange(0, ny)

n_pixels == Len(xs) * Len(ys)

\* ------------------------------------------------------ columns, spectra
\* the nine depth profiles of pixel (iy, ix); vzk tells what the velocity
\* profile holds: the vz cube ("vz") or the vz cube over the rho cube
Column(iy, ix, vzk) == [y |-> Wrap(iy, ny), x |-> Wrap(ix, nx), vz |-> vzk]

\* the velocity profile of mpi_master_work
MasterVz == IF run.vz_type = "vz" THEN "vz" ELSE "vz/rho"

\* data_to_send['model'] of a batch
MasterModel(iX, iY) == [i \in 1..Len(iX) |-> Column(iY[i], iX[i], MasterVz)]

\* the velocity profile nonmpi_work hands to synth
SerialVz ==
    IF run.interpolate
    THEN (IF run.vz_type = "vz" THEN "vz" ELSE "vz/rho")
    ELSE "vz"

\* the spectrum of one column: row 0 is the wavelength axis, rows 1..4 are
\* I, Q, U, V
synth(col) == [axis |-> "lambda", iquv |-> col]

\* the batched entry point: one spectrum per column
synth2d(cols) == [i \in 1..Len(cols) |-> synth(cols[i])]

\* the resampled model of one column
resample(col) == [model_of |-> col]

\* ------------------------------------------------------ the output store
\* the cell the i-th pixel of a batch is written to
CellOf(iX, iY, i) == <<Wrap(iY[i], ny), Wrap(iX[i], nx)>>

\* the pixels of a batch that are written to cell c
Hits(iX, iY, c) == {i \in 1..Len(iX) : CellOf(iX, iY, i) = c}

Last(S) == CHOOSE i \in S : \A j \in S : j <= i

\* the loop `for i in range(len(indX)): stokesI_db[indY[i],indX[i],:] = ...`
\* (and Q, U, V): a later write to a cell replaces an earlier one
WriteStokes(db, iX, iY, spectra) ==
    [c \in Cells |->
        IF Hits(iX, iY, c) = {} THEN db[c]
        ELSE <<spectra[Last(Hits(iX, iY, c))].iquv>>]

\* the number of writes every cell has had after that loop
CountWrites(cnt, iX, iY) ==
    [c \in Cells |-> cnt[c] + Cardinality(Hits(iX, iY, c))]

\* an element of the resampled-model dataset of mpi_master_work, created
\* with shape (7, ny, nx, n_tau) and written at [:, y, x, :]
MasterModelAt(y, x) == [axes |-> <<"chan", "y", "x", "tau">>, y |-> y, x |-> x]

\* an element of the resampled-model dataset of nonmpi_work, created with
\* shape (ny, nx, 7, n_tau) and written at [y, x, :, :]
SerialModelAt(y, x) == [axes |-> <<"y", "x", "chan", "tau">>, y |-> y, x |-> x]

\* the loop `for i in range(len(indX)): model_db[:,indY[i],indX[i],:] = ...`
WriteModel(db, iX, iY) ==
    db \cup {MasterModelAt(CellOf(iX, iY, i)[1], CellOf(iX, iY, i)[2]) :
                i \in 1..Len(iX)}

\* ---------------------------------------------------------- the messages
ReadyMsg == [tag |-> READY]
ExitMsg == [tag |-> EXIT]

\* data_to_send of mpi_master_work
StartMsg(k, iX, iY, interp) ==
    [tag |-> START, index |-> k, indX |-> iX, indY |-> iY,
     interpolate |-> interp, model |-> MasterModel(iX, iY)]

\* a variant of DoneMsg that hands the task's coordinates back swapped
DoneMsg_swaps(task) ==
    [tag |-> DONE, index |-> task.index, indX |-> task.indY,
     indY |-> task.indX, stokes |-> synth2d(task.model),
     model |-> IF task.interpolate
               THEN [i \in 1..Len(task.model) |-> resample(task.model[i])]
               ELSE <<>>]

\* data_to_send of mpi_agents_work
DoneMsg(task) ==
    [tag |-> DONE, index |-> task.index, indX |-> task.indX,
     indY |-> task.indY, stokes |-> synth2d(task.model),
     model |-> IF task.interpolate
               THEN [i \in 1..Len(task.model) |-> resample(task.model[i])]
               ELSE <<>>]

\* ------------------------------------------------------------------ Init
\* every sub-rectangle restriction inside an axis of length n
AllRanges(n) ==
    {NoRange} \cup {Range(p[1], p[2]) :
                        p \in {q \in (0..n) \X (0..n) : q[1] <= q[2]}}

\* len(np.arange(...)) of a restriction rg of an axis of length n
Extent(rg, n) == IF rg.given THEN Max(0, rg.hi - rg.lo) ELSE n

\* the restrictions <<rangex, rangey>> tried on grid g: those that cut at
\* most MaxTrim rows and columns off it
Restrictions(g) ==
    {rr \in AllRanges(g[1]) \X AllRanges(g[2]) :
        (g[1] - Extent(rr[1], g[1])) + (g[2] - Extent(rr[2], g[2])) <= MaxTrim}

\* the grids tried
Grids == {g \in (1..MaxPixels) \X (1..MaxPixels) : g[1] * g[2] <= MaxPixels}

Run(mpi, sz, b, g, rx, ry, vzt, interp) ==
    [use_mpi |-> mpi, size |-> sz, batch |-> b, nx |-> g[1], ny |-> g[2],
     rangex |-> rx, rangey |-> ry, vz_type |-> vzt, interpolate |-> interp]

\* the velocity types and interpolation settings the distributed runs are
\* tried with
MpiFlags == {<<"vz", FALSE>>, <<"vz_rho", TRUE>>}

\* the distributed runs tried on grid g
MpiRuns(g) ==
    {r \in {Run(TRUE, sz, b, g, rr[1], rr[2], fl[1], fl[2]) :
               sz \in 1..MaxSize, b \in 1..MaxBatch,
               rr \in Restrictions(g), fl \in MpiFlags} :
        /\ (Extent(r.rangex, r.nx) * Extent(r.rangey, r.ny)) \div r.batch
               <= MaxBatches
        /\ (r.size - 1)
               * ((Extent(r.rangex, r.nx) * Extent(r.rangey, r.ny)) \div r.batch)
               <= MaxWork}

\* the serial runs tried on grid g, launched as sz processes
SerialRuns(g, sz) ==
    {Run(FALSE, sz, b, g, rr[1], rr[2], vzt, interp) :
        b \in 1..MaxBatch, rr \in Restrictions(g),
        vzt \in {"vz", "vz_rho"}, interp \in BOOLEAN}

\* three agents and seven batches
ScenarioRun == Run(TRUE, 4, 1, <<7, 1>>, NoRange, NoRange, "vz", FALSE)

\* the grids the partition alone is tried on
PartGrids == ((1..MaxSide) \X (1..MaxSide)) \cup {<<10, 10>>}

\* the runs the partition alone is tried on, on grid g
PartRuns(g) ==
    {Run(TRUE, 2, b, g, rx, ry, "vz", FALSE) :
        b \in 1..MaxPartBatch, rx \in AllRanges(g[1]), ry \in AllRanges(g[2])}

\* the distributed runs without a sub-rectangle restriction, on grid g
LiveRuns(g) ==
    {r \in MpiRuns(g) \cup {ScenarioRun} :
        r.nx = g[1] /\ r.ny = g[2] /\ ~r.rangex.given /\ ~r.rangey.given}

\* the non-empty restrictions of an axis of length n that leave the axis, by
\* at most MaxOver at either end
OutRanges(n) ==
    {Range(p[1], p[2]) :
        p \in {q \in ((0 - MaxOver)..(n + MaxOver)) \X ((0 - MaxOver)..(n + MaxOver)) :
                  q[1] < q[2] /\ (q[1] < 0 \/ q[2] > n)}}

\* the restrictions <<rangex, rangey>> of grid g that leave the grid along
\* one axis
OutRestrictions(g) ==
    (OutRanges(g[1]) \X {NoRange}) \cup ({NoRange} \X OutRanges(g[2]))

\* the runs, distributed and serial, whose sub-rectangle leaves grid g
RangeRuns(g) ==
    {r \in {Run(mpi, IF mpi THEN sz ELSE 1, b, g, rr[1], rr[2], fl[1], fl[2]) :
               mpi \in BOOLEAN, sz \in 2..MaxSize, b \in 1..MaxBatch,
               rr \in OutRestrictions(g), fl \in MpiFlags} :
        (Extent(r.rangex, r.nx) * Extent(r.rangey, r.ny)) \div r.batch
            <= MaxBatches}

\* a variant of Fresh whose constructor accepts MPI with one process
Fresh_accepts_one(r) ==
    [mpc |-> "run_all_pixels",
     cells |-> [c \in (0..(r.ny - 1)) \X (0..(r.nx - 1)) |-> <<>>],
     counts |-> [c \in (0..(r.ny - 1)) \X (0..(r.nx - 1)) |-> 0],
     idle |-> [w \in (IF r.use_mpi THEN 1..(r.size - 1) ELSE {}) |-> "send_ready"],
     empty |-> [w \in (IF r.use_mpi THEN 1..(r.size - 1) ELSE {}) |-> <<>>],
     zero |-> [w \in (IF r.use_mpi THEN 1..(r.size - 1) ELSE {}) |-> 0]]

\* the state of a launch with arguments r once Iterator(...) and
\* use_model(...) have returned on every rank; the constructor raises when
\* MPI is asked for with one process
Fresh(r) ==
    [mpc |-> IF r.use_mpi /\ r.size = 1 THEN "raised" ELSE "run_all_pixels",
     cells |-> [c \in (0..(r.ny - 1)) \X (0..(r.nx - 1)) |-> <<>>],
     counts |-> [c \in (0..(r.ny - 1)) \X (0..(r.nx - 1)) |-> 0],
     idle |-> [w \in (IF r.use_mpi THEN 1..(r.size - 1) ELSE {}) |-> "send_ready"],
     empty |-> [w \in (IF r.use_mpi THEN 1..(r.size - 1) ELSE {}) |-> <<>>],
     zero |-> [w \in (IF r.use_mpi THEN 1..(r.size - 1) ELSE {}) |-> 0]]

\* self.model on every rank once use_model(...) has returned everywhere:
\* rank 0 holds the model it was given, an agent the broadcast copy with
\* init_sir done
ModelsAfterUse(r) ==
    [k \in 0..(IF r.use_mpi THEN r.size - 1 ELSE 0) |->
        IF k = 0 THEN "model" ELSE "ready"]

Start(r) ==
    /\ run = r
    /\ self_model = ModelsAfterUse(r)
    /\ bcast_buf = {}
    /\ mpc = Fresh(r).mpc
    /\ n_batches = 0
    /\ divX = <<>>
    /\ divY = <<>>
    /\ task_index = 0
    /\ closed_workers = 0
    /\ index = <<>>
    /\ stokes = <<>>
    /\ cursor = <<0, 0>>
    /\ f_stokes_out = "none"
    /\ f_model_out = "none"
    /\ stokes_db = Fresh(r).cells
    /\ lambda_db = <<>>
    /\ model_db = {}
    /\ wpc = Fresh(r).idle
    /\ data_received = Fresh(r).empty
    /\ to_master = Fresh(r).empty
    /\ to_agent = Fresh(r).empty
    /\ n_writes = Fresh(r).counts
    /\ lambda_log = <<>>
    /\ start_log = <<>>
    /\ n_exit = Fresh(r).zero
    /\ n_done = <<>>
    /\ synth_in = Fresh(r).cells
    /\ ref = <<>>

Init ==
    \/ \E g \in Grids : \E r \in MpiRuns(g) \cup SerialRuns(g, 1) : Start(r)
    \/ Start(ScenarioRun)

InitPart == \E g \in PartGrids : \E r \in PartRuns(g) : Start(r)

InitLive ==
    \E g \in Grids \cup {<<ScenarioRun.nx, ScenarioRun.ny>>} :
        \E r \in LiveRuns(g) : Start(r)

\* a distributed launch with arguments r whose ranks have built their
\* Iterator and are about to call use_model(...)
StartUse(r) ==
    /\ run = r
    /\ mpc = "use_model"
    /\ wpc = [w \in 1..(r.size - 1) |-> "use_model"]
    /\ self_model = [k \in 0..(r.size - 1) |-> "none"]
    /\ bcast_buf = {}
    /\ n_batches = 0
    /\ divX = <<>>
    /\ divY = <<>>
    /\ task_index = 0
    /\ closed_workers = 0
    /\ index = <<>>
    /\ stokes = <<>>
    /\ cursor = <<0, 0>>
    /\ f_stokes_out = "none"
    /\ f_model_out = "none"
    /\ stokes_db = Fresh(r).cells
    /\ lambda_db = <<>>
    /\ model_db = {}
    /\ data_received = Fresh(r).empty
    /\ to_master = Fresh(r).empty
    /\ to_agent = Fresh(r).empty
    /\ n_writes = Fresh(r).counts
    /\ lambda_log = <<>>
    /\ start_log = <<>>
    /\ n_exit = Fresh(r).zero
    /\ n_done = <<>>
    /\ synth_in = Fresh(r).cells
    /\ ref = <<>>

InitUse ==
    \E g \in Grids : \E r \in LiveRuns(g) :
        r.size >= 2 /\ r.size <= MaxSize /\ StartUse(r)

InitRange == \E g \in Grids : \E r \in RangeRuns(g) : Start(r)

InitCompare ==
    \E g \in Grids : \E sz \in 2..MaxSize : \E r \in SerialRuns(g, sz) : Start(r)

\* ------------------------------------------------------ mpi_master_work
\* a variant of BatchCount that rounds up
BatchCount_rounds_up(n, b) == (n + b - 1) \div b

\* line 248: self.n_batches = self.n_pixels // self.batch
BatchCount(n, b) == n \div b

\* lines 236-280: the partition, the output files, the loop's counters.
\* np.array_split raises ValueError when n_batches is 0
MasterSetup ==
    /\ mpc = "run_all_pixels"
    /\ run.use_mpi
    /\ IF BatchCount(n_pixels, run.batch) <= 0
       THEN /\ mpc' = "error"
            /\ UNCHANGED <<partVars, fileVars, n_done>>
       ELSE /\ mpc' = "loop"
            /\ n_batches' = BatchCount(n_pixels, run.batch)
            /\ divX' = array_split(meshX(xs, ys), BatchCount(n_pixels, run.batch))
            /\ divY' = array_split(meshY(xs, ys), BatchCount(n_pixels, run.batch))
            /\ f_stokes_out' = "open"
            /\ f_model_out' = IF run.interpolate THEN "open" ELSE "none"
            /\ n_done' = [k \in 0..(BatchCount(n_pixels, run.batch) - 1) |-> 0]
    /\ UNCHANGED <<useVars, run, loopVars, cursor, dataVars, axisVars, agentVars,
                   chanVars, start_log, n_exit, ref>>

\* a variant of LoopRuns that stops one acknowledgement early
LoopRuns_one_short(closed, workers) == closed < workers - 1

\* line 283: the dispatch loop goes on while some agent has not closed
LoopRuns(closed, workers) == closed < workers

\* a variant of HasTask that issues the first batch only
HasTask_first_only(k, n) == k < Min(n, 1)

\* a variant of HasTask that never issues the last batch
HasTask_skips_last(k, n) == k < n - 1

\* line 290: a batch is left to issue
HasTask(k, n) == k < n

\* a variant of NextTask that steps over a batch
NextTask_skips(k) == k + 2

\* a variant of NextTask that leaves the cursor where it is
NextTask_stays(k) == k

\* line 307: the batch cursor after a START
NextTask(k) == k + 1

\* a variant of CloseOne that does not count the acknowledgement
CloseOne_forgets(closed) == closed

\* line 337: the closed-worker counter after an EXIT
CloseOne(closed) == closed + 1

\* the fancy index self.T[:,iy,ix] (and the other cubes) raises IndexError
\* unless every coordinate of the batch is on its axis
Sliceable(iX, iY) ==
    \A i \in 1..Len(iX) : InAxis(iX[i], nx) /\ InAxis(iY[i], ny)

\* lines 284-310: READY from agent w while batches remain: START the next one
MasterReadyStart(w) ==
    /\ mpc = "loop"
    /\ LoopRuns(closed_workers, num_workers)
    /\ to_master[w] # <<>>
    /\ Head(to_master[w]).tag = READY
    /\ HasTask(task_index, n_batches)
    /\ to_master' = [to_master EXCEPT ![w] = Tail(@)]
    /\ IF Sliceable(divX[task_index + 1], divY[task_index + 1])
       THEN /\ to_agent' = [to_agent EXCEPT ![w] =
                   Append(@, StartMsg(task_index, divX[task_index + 1],
                                      divY[task_index + 1], run.interpolate))]
            /\ task_index' = NextTask(task_index)
            /\ start_log' = Append(start_log, task_index)
            /\ mpc' = mpc
       ELSE /\ mpc' = "error"
            /\ UNCHANGED <<to_agent, task_index, start_log>>
    /\ UNCHANGED <<useVars, run, partVars, closed_workers, index, stokes, cursor,
                   fileVars, dataVars, axisVars, agentVars, n_exit, n_done,
                   ref>>

\* lines 284-290, 312-313: READY from agent w when no batch is left: EXIT
MasterReadyExit(w) ==
    /\ mpc = "loop"
    /\ LoopRuns(closed_workers, num_workers)
    /\ to_master[w] # <<>>
    /\ Head(to_master[w]).tag = READY
    /\ ~HasTask(task_index, n_batches)
    /\ to_master' = [to_master EXCEPT ![w] = Tail(@)]
    /\ to_agent' = [to_agent EXCEPT ![w] = Append(@, ExitMsg)]
    /\ n_exit' = [n_exit EXCEPT ![w] = @ + 1]
    /\ UNCHANGED <<useVars, run, mpc, partVars, loopVars, cursor, fileVars, dataVars,
                   axisVars, agentVars, start_log, n_done, ref>>

\* lines 284-286, 315-334: DONE from agent w: write its pixels
MasterDone(w) ==
    /\ mpc = "loop"
    /\ LoopRuns(closed_workers, num_workers)
    /\ to_master[w] # <<>>
    /\ Head(to_master[w]).tag = DONE
    /\ LET m == Head(to_master[w]) IN
       /\ index' = <<m.index>>
       /\ stokes' = <<m.stokes>>
       /\ model_db' = IF run.interpolate
                      THEN WriteModel(model_db, m.indX, m.indY)
                      ELSE model_db
       /\ stokes_db' = WriteStokes(stokes_db, m.indX, m.indY, m.stokes)
       /\ n_writes' = CountWrites(n_writes, m.indX, m.indY)
       /\ n_done' = [n_done EXCEPT ![m.index] = @ + 1]
    /\ to_master' = [to_master EXCEPT ![w] = Tail(@)]
    /\ UNCHANGED <<useVars, run, mpc, partVars, task_index, closed_workers, cursor,
                   fileVars, axisVars, agentVars, to_agent, start_log, n_exit,
                   ref>>

\* lines 284-286, 336-337: EXIT from agent w: one more closed worker
MasterExit(w) ==
    /\ mpc = "loop"
    /\ LoopRuns(closed_workers, num_workers)
    /\ to_master[w] # <<>>
    /\ Head(to_master[w]).tag = EXIT
    /\ closed_workers' = CloseOne(closed_workers)
    /\ to_master' = [to_master EXCEPT ![w] = Tail(@)]
    /\ UNCHANGED <<useVars, run, mpc, partVars, task_index, index, stokes, cursor,
                   fileVars, dataVars, axisVars, agentVars, to_agent, logVars,
                   ref>>

\* lines 283, 339: the loop ends and the spectral axis is written from the
\* local `stokes`; an unbound `stokes` raises NameError
MasterWriteLambda ==
    /\ mpc = "loop"
    /\ ~LoopRuns(closed_workers, num_workers)
    /\ IF stokes = <<>>
       THEN /\ mpc' = "error"
            /\ UNCHANGED axisVars
       ELSE /\ mpc' = "close"
            /\ lambda_db' = <<stokes[1][1].axis>>
            /\ lambda_log' = Append(lambda_log, index[1])
    /\ UNCHANGED <<useVars, run, partVars, loopVars, cursor, fileVars, dataVars,
                   agentVars, chanVars, logVars, ref>>

\* lines 340-342: close the output files
MasterClose ==
    /\ mpc = "close"
    /\ run.use_mpi
    /\ mpc' = "done"
    /\ f_stokes_out' = "closed"
    /\ f_model_out' = IF run.interpolate THEN "closed" ELSE f_model_out
    /\ UNCHANGED <<useVars, run, partVars, loopVars, cursor, dataVars, axisVars,
                   agentVars, chanVars, logVars, ref>>

\* ------------------------------------------------------ mpi_agents_work
\* line 358: announce readiness
AgentReady(w) ==
    /\ wpc[w] = "send_ready"
    /\ to_master' = [to_master EXCEPT ![w] = Append(@, ReadyMsg)]
    /\ wpc' = [wpc EXCEPT ![w] = "recv"]
    /\ UNCHANGED <<useVars, run, mpc, partVars, loopVars, cursor, fileVars, dataVars,
                   axisVars, data_received, synth_in, to_agent, logVars, ref>>

\* a variant of AfterRecv that asks for the next task before working on
\* the one it was given
AfterRecv_asks_again(tag) ==
    IF tag = START THEN "send_ready"
    ELSE IF tag = EXIT THEN "send_exit"
    ELSE "send_ready"

\* a variant of AfterRecv that does not break on EXIT
AfterRecv_ignores_exit(tag) == IF tag = START THEN "synth" ELSE "send_ready"

\* lines 363, 382-383: where an agent goes on a message with this tag
AfterRecv(tag) ==
    IF tag = START THEN "synth"
    ELSE IF tag = EXIT THEN "send_exit"
    ELSE "send_ready"

\* lines 359-371, 382-383: take the master's answer and branch on its tag
AgentRecv(w) ==
    /\ wpc[w] = "recv"
    /\ to_agent[w] # <<>>
    /\ to_agent' = [to_agent EXCEPT ![w] = Tail(@)]
    /\ data_received' = [data_received EXCEPT ![w] =
                            IF Head(to_agent[w]).tag = START
                            THEN <<Head(to_agent[w])>> ELSE <<>>]
    /\ wpc' = [wpc EXCEPT ![w] = AfterRecv(Head(to_agent[w]).tag)]
    /\ UNCHANGED <<useVars, run, mpc, partVars, loopVars, cursor, fileVars, dataVars,
                   axisVars, synth_in, to_master, logVars, ref>>

\* the columns of a task, by the cell they were cut from
TaskInput(old, task) ==
    [c \in Cells |->
        IF \E i \in 1..Len(task.model) :
              <<task.model[i].y, task.model[i].x>> = c
        THEN <<task.model[CHOOSE i \in 1..Len(task.model) :
                              <<task.model[i].y, task.model[i].x>> = c]>>
        ELSE old[c]]

\* lines 373-381: run synth2d on the task's columns and send DONE
AgentDone(w) ==
    /\ wpc[w] = "synth"
    /\ synth_in' = TaskInput(synth_in, data_received[w][1])
    /\ to_master' = [to_master EXCEPT ![w] =
                        Append(@, DoneMsg(data_received[w][1]))]
    /\ wpc' = [wpc EXCEPT ![w] = "send_ready"]
    /\ data_received' = [data_received EXCEPT ![w] = <<>>]
    /\ UNCHANGED <<useVars, run, mpc, partVars, loopVars, cursor, fileVars, dataVars,
                   axisVars, to_agent, logVars, ref>>

\* line 385: acknowledge EXIT after leaving the loop
AgentExit(w) ==
    /\ wpc[w] = "send_exit"
    /\ to_master' = [to_master EXCEPT ![w] = Append(@, ExitMsg)]
    /\ wpc' = [wpc EXCEPT ![w] = "exited"]
    /\ UNCHANGED <<useVars, run, mpc, partVars, loopVars, cursor, fileVars, dataVars,
                   axisVars, data_received, synth_in, to_agent, logVars, ref>>

\* ----------------------------------------------------------- nonmpi_work
\* lines 138-151: create the output files
SerialSetup ==
    /\ mpc = "run_all_pixels"
    /\ ~run.use_mpi
    /\ mpc' = "serial_loop"
    /\ f_stokes_out' = "open"
    /\ f_model_out' = IF run.interpolate THEN "open" ELSE "none"
    /\ cursor' = <<0, 0>>
    /\ UNCHANGED <<useVars, run, partVars, loopVars, dataVars, axisVars, agentVars,
                   chanVars, logVars, ref>>

\* lines 154-176: one pixel of the two nested loops
SerialPixel ==
    /\ mpc = "serial_loop"
    /\ cursor[1] < ny
    /\ LET iy == cursor[1]
           ix == cursor[2]
           col == Column(iy, ix, SerialVz)
       IN
       /\ synth_in' = [synth_in EXCEPT ![<<iy, ix>>] = <<col>>]
       /\ stokes' = <<synth(col)>>
       /\ index' = <<iy * nx + ix>>
       /\ model_db' = IF run.interpolate
                      THEN model_db \cup {SerialModelAt(iy, ix)}
                      ELSE model_db
       /\ stokes_db' = [stokes_db EXCEPT ![<<iy, ix>>] = <<synth(col).iquv>>]
       /\ n_writes' = [n_writes EXCEPT ![<<iy, ix>>] = @ + 1]
       /\ cursor' = IF ix + 1 < nx THEN <<iy, ix + 1>> ELSE <<iy + 1, 0>>
    /\ UNCHANGED <<useVars, run, mpc, partVars, task_index, closed_workers, fileVars,
                   axisVars, wpc, data_received, chanVars, logVars, ref>>

\* line 178: after the loops, write the spectral axis
SerialWriteLambda ==
    /\ mpc = "serial_loop"
    /\ ~(cursor[1] < ny)
    /\ IF stokes = <<>>
       THEN /\ mpc' = "error"
            /\ UNCHANGED axisVars
       ELSE /\ mpc' = "serial_close"
            /\ lambda_db' = <<stokes[1].axis>>
            /\ lambda_log' = Append(lambda_log, index[1])
    /\ UNCHANGED <<useVars, run, partVars, loopVars, cursor, fileVars, dataVars,
                   agentVars, chanVars, logVars, ref>>

\* lines 180-181: close the output files; self.f_model_out does not exist
\* unless the resampled model was asked for, and AttributeError is raised
SerialClose ==
    /\ mpc = "serial_close"
    /\ f_stokes_out' = "closed"
    /\ IF f_model_out = "none"
       THEN /\ mpc' = "error"
            /\ f_model_out' = f_model_out
       ELSE /\ mpc' = "done"
            /\ f_model_out' = "closed"
    /\ UNCHANGED <<useVars, run, partVars, loopVars, cursor, dataVars, axisVars,
                   agentVars, chanVars, logVars, ref>>

\* ----------------------------------------------------------- a second run
\* what a finished run leaves behind
Outcome ==
    [mpc |-> mpc, stokes_db |-> stokes_db, model_db |-> model_db,
     lambda_db |-> lambda_db, n_writes |-> n_writes, synth_in |-> synth_in,
     f_stokes_out |-> f_stokes_out, f_model_out |-> f_model_out]

\* once the serial run has ended, the same arguments are run again with
\* use_mpi set, on run.size processes; the serial outcome is kept in ref
Relaunch ==
    /\ ~run.use_mpi
    /\ mpc \in {"done", "error"}
    /\ ref = <<>>
    /\ ref' = <<Outcome>>
    /\ run' = [run EXCEPT !.use_mpi = TRUE]
    /\ self_model' = ModelsAfterUse(run')
    /\ bcast_buf' = {}
    /\ mpc' = Fresh(run').mpc
    /\ n_batches' = 0
    /\ divX' = <<>>
    /\ divY' = <<>>
    /\ task_index' = 0
    /\ closed_workers' = 0
    /\ index' = <<>>
    /\ stokes' = <<>>
    /\ cursor' = <<0, 0>>
    /\ f_stokes_out' = "none"
    /\ f_model_out' = "none"
    /\ stokes_db' = Fresh(run').cells
    /\ lambda_db' = <<>>
    /\ model_db' = {}
    /\ wpc' = Fresh(run').idle
    /\ data_received' = Fresh(run').empty
    /\ to_master' = Fresh(run').empty
    /\ to_agent' = Fresh(run').empty
    /\ n_writes' = Fresh(run').counts
    /\ lambda_log' = <<>>
    /\ start_log' = <<>>
    /\ n_exit' = Fresh(run').zero
    /\ n_done' = <<>>
    /\ synth_in' = Fresh(run').cells

\* ------------------------------------------------------------- use_model
\* where rank k is: rank 0 in mpc, an agent in wpc
PcOf(k) == IF k = 0 THEN mpc ELSE wpc[k]

Ranks == 0..num_workers

\* the ranks that have called the first comm.Barrier() of use_model
InBarrier1 == {k \in Ranks : PcOf(k) # "use_model"}

\* the ranks that have called the second comm.Barrier() of use_model
InBarrier2 == {k \in Ranks : PcOf(k) \notin {"use_model", "in_barrier1", "bcast"}}

\* a variant of BarrierReleases that lets a rank through at once
BarrierReleases_at_once(entered, ranks) == TRUE

\* comm.Barrier() returns on a rank once every rank has called it
BarrierReleases(entered, ranks) == entered = ranks

\* lines 61-66: rank 0 keeps the model and calls the first Barrier
MasterUseEnter ==
    /\ mpc = "use_model"
    /\ run.use_mpi
    /\ self_model' = [self_model EXCEPT ![0] = "model"]
    /\ mpc' = "in_barrier1"
    /\ UNCHANGED <<bcast_buf, run, partVars, loopVars, cursor, fileVars,
                   dataVars, axisVars, agentVars, chanVars, logVars, ref>>

\* line 66: the first Barrier returns on rank 0
MasterBarrier1 ==
    /\ mpc = "in_barrier1"
    /\ BarrierReleases(InBarrier1, Ranks)
    /\ mpc' = "bcast"
    /\ UNCHANGED <<useVars, run, partVars, loopVars, cursor, fileVars,
                   dataVars, axisVars, agentVars, chanVars, logVars, ref>>

\* lines 67-68: rank 0 broadcasts the model (the send is buffered) and
\* calls the second Barrier
MasterBcast ==
    /\ mpc = "bcast"
    /\ bcast_buf' = Agents
    /\ mpc' = "in_barrier2"
    /\ UNCHANGED <<self_model, run, partVars, loopVars, cursor, fileVars,
                   dataVars, axisVars, agentVars, chanVars, logVars, ref>>

\* lines 68, 82-83: the second Barrier returns on rank 0, use_model returns
MasterBarrier2 ==
    /\ mpc = "in_barrier2"
    /\ BarrierReleases(InBarrier2, Ranks)
    /\ mpc' = "returned"
    /\ UNCHANGED <<useVars, run, partVars, loopVars, cursor, fileVars,
                   dataVars, axisVars, agentVars, chanVars, logVars, ref>>

\* after use_model the caller on rank 0 calls run_all_pixels
MasterCall ==
    /\ mpc = "returned"
    /\ mpc' = "run_all_pixels"
    /\ UNCHANGED <<useVars, run, partVars, loopVars, cursor, fileVars,
                   dataVars, axisVars, agentVars, chanVars, logVars, ref>>

\* lines 70-72: an agent drops its argument and calls the first Barrier
AgentUseEnter(w) ==
    /\ wpc[w] = "use_model"
    /\ wpc' = [wpc EXCEPT ![w] = "in_barrier1"]
    /\ UNCHANGED <<useVars, run, mpc, partVars, loopVars, cursor, fileVars,
                   dataVars, axisVars, data_received, synth_in, chanVars,
                   logVars, ref>>

\* line 72: the first Barrier returns on an agent
AgentBarrier1(w) ==
    /\ wpc[w] = "in_barrier1"
    /\ BarrierReleases(InBarrier1, Ranks)
    /\ wpc' = [wpc EXCEPT ![w] = "bcast"]
    /\ UNCHANGED <<useVars, run, mpc, partVars, loopVars, cursor, fileVars,
                   dataVars, axisVars, data_received, synth_in, chanVars,
                   logVars, ref>>

\* lines 73-74: the broadcast hands the agent the model of rank 0; the
\* agent calls the second Barrier
AgentBcast(w) ==
    /\ wpc[w] = "bcast"
    /\ w \in bcast_buf
    /\ bcast_buf' = bcast_buf \ {w}
    /\ self_model' = [self_model EXCEPT ![w] = "model"]
    /\ wpc' = [wpc EXCEPT ![w] = "in_barrier2"]
    /\ UNCHANGED <<run, mpc, partVars, loopVars, cursor, fileVars,
                   dataVars, axisVars, data_received, synth_in, chanVars,
                   logVars, ref>>

\* line 74: the second Barrier returns on an agent
AgentBarrier2(w) ==
    /\ wpc[w] = "in_barrier2"
    /\ BarrierReleases(InBarrier2, Ranks)
    /\ wpc' = [wpc EXCEPT ![w] = "init_sir"]
    /\ UNCHANGED <<useVars, run, mpc, partVars, loopVars, cursor, fileVars,
                   dataVars, axisVars, data_received, synth_in, chanVars,
                   logVars, ref>>

\* line 77: the agent rebuilds the derived state of the model it received;
\* use_model returns
AgentInitSir(w) ==
    /\ wpc[w] = "init_sir"
    /\ self_model' = [self_model EXCEPT ![w] =
                         IF @ = "model" THEN "ready" ELSE "failed"]
    /\ wpc' = [wpc EXCEPT ![w] = "returned"]
    /\ UNCHANGED <<bcast_buf, run, mpc, partVars, loopVars, cursor, fileVars,
                   dataVars, axisVars, data_received, synth_in, chanVars,
                   logVars, ref>>

\* after use_model the caller on an agent calls run_all_pixels
AgentCall(w) ==
    /\ wpc[w] = "returned"
    /\ wpc' = [wpc EXCEPT ![w] = "send_ready"]
    /\ UNCHANGED <<useVars, run, mpc, partVars, loopVars, cursor, fileVars,
                   dataVars, axisVars, data_received, synth_in, chanVars,
                   logVars, ref>>

MasterUse ==
    \/ MasterUseEnter
    \/ MasterBarrier1
    \/ MasterBcast
    \/ MasterBarrier2
    \/ MasterCall

AgentUse(w) ==
    \/ AgentUseEnter(w)
    \/ AgentBarrier1(w)
    \/ AgentBcast(w)
    \/ AgentBarrier2(w)
    \/ AgentInitSir(w)
    \/ AgentCall(w)

\* ------------------------------------------------------------------ Next
Master ==
    \/ MasterSetup
    \/ \E w \in Agents : MasterReadyStart(w)
    \/ \E w \in Agents : MasterReadyExit(w)
    \/ \E w \in Agents : MasterDone(w)
    \/ \E w \in Agents : MasterExit(w)
    \/ MasterWriteLambda
    \/ MasterClose

Agent(w) ==
    \/ AgentReady(w)
    \/ AgentRecv(w)
    \/ AgentDone(w)
    \/ AgentExit(w)

Serial ==
    \/ SerialSetup
    \/ SerialPixel
    \/ SerialWriteLambda
    \/ SerialClose

Next ==
    \/ Master
    \/ \E w \in Agents : Agent(w)
    \/ Serial

Spec == Init /\ [][Next]_vars

\* a step of agent w, when the run has an agent w
AgentStep(w) == w \in Agents /\ Agent(w)

NextLive == Master \/ \E w \in 1..(MaxSize + 1) : AgentStep(w)

\* every rank is a process of its own that keeps running: a step of the
\* master or of an agent that stays possible is taken in the end (for
\* AgentDone: synth2d returns)
Fairness ==
    /\ WF_vars(Master)
    /\ \A w \in 1..(MaxSize + 1) : WF_vars(AgentStep(w))

SpecLive == InitLive /\ [][NextLive]_vars /\ Fairness

\* the partition alone, on larger grids
SpecPart == InitPart /\ [][MasterSetup]_vars

\* a serial run followed by a distributed run with the same arguments
NextCompare == Next \/ Relaunch

SpecCompare == InitCompare /\ [][NextCompare]_vars

\* a distributed launch from the call of use_model on
NextUse ==
    \/ MasterUse
    \/ \E w \in Agents : AgentUse(w)
    \/ Master
    \/ \E w \in Agents : Agent(w)

SpecUse == InitUse /\ [][NextUse]_vars

\* the runs whose sub-rectangle is not inside the grid
SpecRange == InitRange /\ [][Next]_vars

\* ================================================================ claims
\* the columns and rows asked for, read off rangex and rangey
RequestedX == IF rangex.given THEN rangex.lo..(rangex.hi - 1) ELSE 0..(nx - 1)
RequestedY == IF rangey.given THEN rangey.lo..(rangey.hi - 1) ELSE 0..(ny - 1)

\* the requested pixels, as (y, x) cells
Requested == RequestedY \X RequestedX

\* the sub-rectangle lies inside the grid
RangeInGrid == Requested \subseteq Cells

\* the (y, x) pixels of batch k (1-based position in divX, divY)
BatchPixels(k) == {<<divY[k][i], divX[k][i]>> : i \in 1..Len(divX[k])}

\* all batched pixels
AllBatchPixels == UNION {BatchPixels(k) : k \in 1..Len(divX)}

RECURSIVE SumLen(_)
\* the total length of a sequence of sequences
SumLen(ss) == IF ss = <<>> THEN 0 ELSE Len(Head(ss)) + SumLen(Tail(ss))

\* the master has left the dispatch loop of a distributed run
LoopEnded == run.use_mpi /\ mpc \in {"close", "done"}

\* the master has closed the output store of a distributed run
MpiClosed == run.use_mpi /\ f_stokes_out = "closed"

\* C1: in a distributed run, once the master has closed the output store,
\* every requested pixel has been written exactly once, and no other pixel
\* has been written at all.
C1_EveryPixelWrittenOnce ==
    (MpiClosed /\ RangeInGrid) =>
        \A c \in Cells :
            /\ n_writes[c] = IF c \in Requested THEN 1 ELSE 0
            /\ (stokes_db[c] # <<>>) <=> (c \in Requested)

\* a closed distributed run of two agents and several batches over a proper,
\* non-empty sub-rectangle
C1_Witness ==
    /\ MpiClosed
    /\ RangeInGrid
    /\ num_workers >= 2
    /\ n_batches >= 2
    /\ Requested # {}
    /\ Requested # Cells
    /\ \A c \in Requested : n_writes[c] = 1

\* C2: whatever the grid, the sub-rectangle inside it and the batch size,
\* once the master has built its batches they are pairwise disjoint, their
\* union is the requested pixel set (len(x) * len(y) pixels), and every
\* batched pixel lies in the requested rectangle.
C2_BatchesPartitionRequested ==
    (run.use_mpi /\ mpc # "run_all_pixels" /\ RangeInGrid) =>
        /\ AllBatchPixels = Requested
        /\ SumLen(divX) = Cardinality(Requested)
        /\ SumLen(divY) = Cardinality(Requested)
        /\ Cardinality(Requested) = Len(xs) * Len(ys)

\* C3: for n >= 1 pixels and batch size b the master builds floor(n / b)
\* batches, or some non-zero number of at most n batches when n < b; no
\* batch is empty, no pixel is dropped, and two batches differ by at most
\* one pixel.
C3_BatchCount ==
    (run.use_mpi /\ mpc # "run_all_pixels" /\ RangeInGrid /\ n_pixels >= 1) =>
        /\ n_batches = Len(divX)
        /\ IF n_pixels < run.batch
           THEN n_batches \in 1..n_pixels
           ELSE n_batches = n_pixels \div run.batch
        /\ SumLen(divX) = n_pixels
        /\ \A k \in 1..Len(divX) : Len(divX[k]) >= 1 /\ Len(divY[k]) = Len(divX[k])
        /\ \A k \in 1..Len(divX) : \A l \in 1..Len(divX) :
               Len(divX[k]) - Len(divX[l]) <= 1

\* C2 and C3 on the runs where the batch size does not exceed the pixel count
PartitionWhenBatchFits ==
    (run.use_mpi /\ mpc # "run_all_pixels" /\ RangeInGrid
        /\ n_pixels >= run.batch) =>
        /\ mpc = "loop"
        /\ C2_BatchesPartitionRequested
        /\ C3_BatchCount

\* the number of entries of log equal to k
Count(log, k) == Cardinality({i \in 1..Len(log) : log[i] = k})

\* the messages with this tag in a queue
Tagged(queue, tag) == {i \in 1..Len(queue) : queue[i].tag = tag}

\* the START messages under way that carry task k
StartCopies(k) ==
    UNION {{<<w, j>> : j \in {i \in Tagged(to_agent[w], START) :
                                 to_agent[w][i].index = k}} : w \in Agents}

\* the agents at work on task k
WorkCopies(k) ==
    {w \in Agents : data_received[w] # <<>> /\ data_received[w][1].index = k}

\* the DONE messages under way that answer task k
DoneCopies(k) ==
    UNION {{<<w, j>> : j \in {i \in Tagged(to_master[w], DONE) :
                                 to_master[w][i].index = k}} : w \in Agents}

\* the number of agents task k is with
Holders(k) ==
    Cardinality(StartCopies(k)) + Cardinality(WorkCopies(k))
        + Cardinality(DoneCopies(k))

\* C4: every START carries a batch index of [0, n_batches) that no other
\* START carries, a batch is never with two agents, and when the dispatch
\* loop has ended every batch index has been carried by exactly one START.
C4_EachBatchIssuedOnce ==
    run.use_mpi =>
        /\ \A i \in 1..Len(start_log) :
               /\ start_log[i] \in 0..(n_batches - 1)
               /\ Count(start_log, start_log[i]) = 1
               /\ Holders(start_log[i]) <= 1
        /\ LoopEnded =>
               \A k \in 0..(n_batches - 1) : Count(start_log, k) = 1

\* the dispatch loop has ended after three batches went to two agents
C4_Witness ==
    /\ LoopEnded
    /\ num_workers = 2
    /\ n_batches = 3
    /\ Len(start_log) = 3

\* an agent has taken the EXIT message off its queue
GotExit(w) == wpc[w] \in {"send_exit", "exited"}

\* C5: when the dispatch loop has ended the master has sent exactly
\* n_batches START messages and exactly one EXIT to every agent; no agent
\* is ever sent a second EXIT, and an agent that has received EXIT has no
\* READY under way and no message waiting for it.
C5_StartAndExitCounts ==
    run.use_mpi =>
        /\ \A w \in Agents : n_exit[w] <= 1
        /\ \A w \in Agents : GotExit(w) =>
               /\ n_exit[w] = 1
               /\ to_agent[w] = <<>>
               /\ Tagged(to_master[w], READY) = {}
        /\ LoopEnded =>
               /\ Len(start_log) = n_batches
               /\ \A w \in Agents : n_exit[w] = 1

\* three agents, seven batches: the loop has ended
C5_Witness ==
    /\ LoopEnded
    /\ num_workers = 3
    /\ n_batches = 7
    /\ Len(start_log) = 7
    /\ \A w \in Agents : n_exit[w] = 1

\* C7: the master closes the output store only when every batch has been
\* issued, the DONE of every batch has been handled and its pixels written,
\* every agent has acknowledged EXIT and no message is under way; so the
\* store is not closed while an agent still has a START to answer.
C7_CloseOnlyWhenDrained ==
    MpiClosed =>
        /\ task_index = n_batches
        /\ \A k \in 0..(n_batches - 1) :
               /\ Count(start_log, k) = 1
               /\ n_done[k] = 1
               /\ \A i \in 1..Len(divX[k + 1]) :
                      n_writes[CellOf(divX[k + 1], divY[k + 1], i)] >= 1
        /\ closed_workers = num_workers
        /\ \A w \in Agents :
               /\ wpc[w] = "exited"
               /\ data_received[w] = <<>>
               /\ to_master[w] = <<>>
               /\ to_agent[w] = <<>>

\* the store of a run of two agents and three batches is closed
C7_Witness ==
    /\ MpiClosed
    /\ num_workers = 2
    /\ n_batches = 3
    /\ \A k \in 0..2 : n_done[k] = 1

\* the pixels a DONE message writes
DoneCells(m) == {CellOf(m.indX, m.indY, i) : i \in 1..Len(m.indX)}

\* what the store holds for a cell when the run is over, read off the input
FinalCell(c) ==
    IF c \in Requested
    THEN <<[y |-> c[1], x |-> c[2],
            vz |-> IF run.vz_type = "vz" THEN "vz" ELSE "vz/rho"]>>
    ELSE <<>>

\* C8: no cell is written by two DONE results (handled or under way), and
\* the closed store holds, for every arrival order, the same contents.
C8_ArrivalOrderIrrelevant ==
    (run.use_mpi /\ RangeInGrid) =>
        /\ \A c \in Cells : n_writes[c] <= 1
        /\ \A c \in Cells : \A w \in Agents :
               \A i \in Tagged(to_master[w], DONE) :
                   c \in DoneCells(to_master[w][i]) =>
                       /\ n_writes[c] = 0
                       /\ \A v \in Agents : \A j \in Tagged(to_master[v], DONE) :
                              (c \in DoneCells(to_master[v][j])) =>
                                  (v = w /\ j = i)
        /\ MpiClosed => \A c \in Cells : stokes_db[c] = FinalCell(c)

\* the results of three batches were handled out of issue order
C8_Witness ==
    /\ MpiClosed
    /\ n_batches = 3
    /\ num_workers = 2
    /\ index = <<0>>
    /\ \A c \in Cells : stokes_db[c] = FinalCell(c)

\* C9: in a distributed run the spectral axis is written at most once, only
\* after the dispatch loop has ended, from a batch whose DONE the master
\* has handled; it has been written once when the store is closed; and when
\* the loop has ended the master holds the spectra of some result.
C9_SpectralAxisOnce ==
    run.use_mpi =>
        /\ Len(lambda_log) <= 1
        /\ (lambda_db # <<>>) <=> (Len(lambda_log) = 1)
        /\ lambda_log # <<>> =>
               /\ LoopEnded
               /\ lambda_log[1] \in DOMAIN n_done
               /\ n_done[lambda_log[1]] >= 1
        /\ MpiClosed => Len(lambda_log) = 1
        /\ (mpc \in {"loop", "close", "done", "error"}
              /\ closed_workers >= num_workers) =>
               /\ mpc # "error"
               /\ stokes # <<>>

\* the axis was written after the loop, the store is still open
C9_Witness ==
    /\ run.use_mpi
    /\ mpc = "close"
    /\ f_stokes_out = "open"
    /\ Len(lambda_log) = 1
    /\ n_batches >= 2
    /\ lambda_db = <<"lambda">>

\* every agent has left its request loop and sent its acknowledgement
AllExited == \A w \in Agents : wpc[w] = "exited"

\* C6: a distributed run with at least one agent and at least one batch
\* ends: the closed-worker counter reaches the number of agents, the master
\* closes the store and every agent leaves its loop.
C6_Terminates ==
    (run.use_mpi /\ run.size >= 2 /\ Cardinality(Requested) \div run.batch >= 1)
        ~> (closed_workers = num_workers /\ MpiClosed /\ AllExited)

\* more agents than batches, and the run has ended
C6_Witness ==
    /\ MpiClosed
    /\ AllExited
    /\ closed_workers = num_workers
    /\ num_workers = 2
    /\ n_batches = 1

\* the cells a run wrote
Written(counts) == {c \in Cells : counts[c] > 0}

\* C10: after a serial run, a finished distributed run with the same
\* arguments has written the same cells, has given the physics the same
\* columns (velocity profile included), and has stored every result at the
\* same place.
C10_SerialMatchesDistributed ==
    (ref # <<>> /\ run.use_mpi /\ mpc = "done") =>
        /\ Written(ref[1].n_writes) = Written(n_writes)
        /\ \A c \in Written(n_writes) : ref[1].synth_in[c] = synth_in[c]
        /\ \A c \in Written(n_writes) : ref[1].stokes_db[c] = stokes_db[c]
        /\ ref[1].model_db = model_db

\* C10, the cells alone
SameCells ==
    (ref # <<>> /\ run.use_mpi /\ mpc = "done") =>
        Written(ref[1].n_writes) = Written(n_writes)

\* C10, the columns alone
SameColumns ==
    (ref # <<>> /\ run.use_mpi /\ mpc = "done") =>
        \A c \in Written(n_writes) : ref[1].synth_in[c] = synth_in[c]

\* C10, the place of the resampled model alone
SameModelPlace ==
    (ref # <<>> /\ run.use_mpi /\ mpc = "done") =>
        ref[1].model_db = model_db

\* the physics has been given a column, or a pixel has been written
Computed ==
    \/ \E c \in Cells : synth_in[c] # <<>>
    \/ \E c \in Cells : n_writes[c] > 0
    \/ \E w \in Agents : wpc[w] = "synth"

\* C11: a run whose sub-rectangle is not inside the grid creates no output
\* store, sends no START, computes and writes no pixel, and does not end
\* well: it stops in an error state before any of these.
C11_OutOfGridRejected ==
    ~RangeInGrid =>
        /\ f_stokes_out = "none"
        /\ f_model_out = "none"
        /\ start_log = <<>>
        /\ ~Computed
        /\ mpc # "done"

\* C11, the output store alone
NoStoreWhenOutOfGrid == ~RangeInGrid => f_stokes_out = "none"

\* C11, the START messages alone
NoStartWhenOutOfGrid == ~RangeInGrid => start_log = <<>>

\* C11, the end of the run alone
NoGoodEndWhenOutOfGrid == ~RangeInGrid => mpc # "done"

\* C11, the distributed runs whose restriction reaches an index no axis
\* position answers to (past the end, or below minus the length): the
\* fancy index of the batch that holds it raises IndexError, none ends well
PastEndRaises ==
    (run.use_mpi /\ (\/ \E i \in RequestedX : ~InAxis(i, nx)
                     \/ \E i \in RequestedY : ~InAxis(i, ny))) =>
        mpc # "done"

\* C12: when MPI is asked for with a single process the constructor raises:
\* the run never gets to run_all_pixels, no partition is built, no output
\* store is created, no message is sent and nothing is computed.
C12_SingleProcessRejected ==
    (run.use_mpi /\ run.size = 1) =>
        /\ mpc = "raised"
        /\ n_batches = 0
        /\ divX = <<>>
        /\ f_stokes_out = "none"
        /\ f_model_out = "none"
        /\ start_log = <<>>
        /\ \A w \in DOMAIN to_master : to_master[w] = <<>> /\ to_agent[w] = <<>>
        /\ ~Computed
        /\ lambda_db = <<>>

\* the constructor has raised on a launch with one process, a grid of
\* several pixels and a batch size that fits
C12_Witness ==
    /\ run.use_mpi
    /\ run.size = 1
    /\ mpc = "raised"
    /\ n_pixels >= 2
    /\ run.batch <= n_pixels

\* cell c comes before the cursor of the serial loop in raster order (rows
\* outer, columns inner)
RasterBefore(c) ==
    c[1] < cursor[1] \/ (c[1] = cursor[1] /\ c[2] < cursor[2])

\* the serial loop has visited, once each, the pixels before its cursor in
\* raster order and no other, and has written each; the resampled-model
\* store exists and is written only when interpolation was asked for
SerialRasterOrder ==
    ~run.use_mpi =>
        /\ mpc = "serial_loop" =>
               \A c \in Cells :
                   /\ n_writes[c] = IF RasterBefore(c) THEN 1 ELSE 0
                   /\ (stokes_db[c] # <<>>) <=> RasterBefore(c)
                   /\ (synth_in[c] # <<>>) <=> RasterBefore(c)
        /\ mpc \in {"serial_close", "done"} =>
               \A c \in Cells : n_writes[c] = 1 /\ stokes_db[c] # <<>>
        /\ (f_model_out # "none") <=>
               (run.interpolate /\ mpc # "run_all_pixels")
        /\ (model_db # {}) => run.interpolate
        /\ run.interpolate =>
               \A c \in Cells :
                   (n_writes[c] > 0) <=> (SerialModelAt(c[1], c[2]) \in model_db)

\* C13: a serial run, with and without interpolation, visits every pixel
\* once in raster order and writes it at once, then closes the output store
\* and ends without an error; the resampled-model store is created, written
\* and closed only when interpolation was asked for.
C13_SerialRunCompletes ==
    ~run.use_mpi =>
        /\ SerialRasterOrder
        /\ mpc # "error"
        /\ mpc = "done" =>
               /\ f_stokes_out = "closed"
               /\ f_model_out = IF run.interpolate THEN "closed" ELSE "none"

\* C13, the runs with interpolation: they end well with both stores closed
SerialEndsWithInterpolation ==
    (~run.use_mpi /\ run.interpolate) =>
        /\ mpc # "error"
        /\ mpc = "done" => f_stokes_out = "closed" /\ f_model_out = "closed"

\* C13, the runs without interpolation: none ends well
SerialFailsWithoutInterpolation ==
    (~run.use_mpi /\ ~run.interpolate) => mpc # "done"

\* C14: the k-th START of a distributed run carries batch index k - 1 and
\* the batch cursor counts the STARTs sent; a step either leaves the cursor
\* and the STARTs alone or sends one START, for the batch under the cursor,
\* and moves the cursor up by one.
C14_StartsInPartitionOrder ==
    /\ [](run.use_mpi =>
             /\ \A k \in 1..Len(start_log) : start_log[k] = k - 1
             /\ task_index = Len(start_log)
             /\ task_index <= n_batches)
    /\ [][run.use_mpi =>
             \/ task_index' = task_index /\ start_log' = start_log
             \/ /\ task_index' = task_index + 1
                /\ start_log' = Append(start_log, task_index)]_vars

\* the third START went out after the second batch was answered and before
\* the first
C14_Witness ==
    /\ run.use_mpi
    /\ num_workers = 2
    /\ n_batches = 3
    /\ start_log = <<0, 1, 2>>
    /\ n_done[0] = 0
    /\ n_done[1] = 1

\* the phase of the master, read off its position and its batch cursor:
\* 0 IDLE (no batch issued), 1 DISPATCHING (some issued, some left),
\* 2 DRAINING (all issued, the loop still runs), 3 DONE (the loop is left)
Phase ==
    IF mpc \in {"close", "done"} THEN 3
    ELSE IF mpc = "run_all_pixels" \/ n_batches = 0 \/ task_index = 0 THEN 0
    ELSE IF task_index < n_batches THEN 1
    ELSE 2

\* the batches issued whose DONE the master has not handled yet
Outstanding == {k \in 0..(task_index - 1) : n_done[k] = 0}

\* an EXIT has been sent to some agent
ExitSent == \E w \in Agents : n_exit[w] > 0

\* agent w is between two tasks: about to send READY, or waiting for the
\* answer to a READY the master has not handled
Asking(w) ==
    \/ wpc[w] = "send_ready"
    \/ wpc[w] = "recv" /\ Tagged(to_master[w], READY) # {}

\* the phases move forwards only, and after an EXIT no START is sent
ForwardOnly ==
    /\ [][run.use_mpi => Phase' >= Phase]_vars
    /\ [](run.use_mpi /\ ExitSent => Phase >= 2 /\ task_index = n_batches)
    /\ [][run.use_mpi /\ ExitSent => start_log' = start_log]_vars

\* C15 as stated: the phases of the master move forwards only, after an
\* EXIT to any agent no START is sent, and in DISPATCHING at least one
\* batch is outstanding.
C15_PhasesForward ==
    /\ ForwardOnly
    /\ [](run.use_mpi /\ Phase = 1 => Outstanding # {})

\* C15 as amended: the phases of the master move forwards only, after an
\* EXIT to any agent no START is sent, and in DISPATCHING either a batch
\* is outstanding or every agent is between two tasks, asking for the next.
C15_PhasesForwardAmended ==
    /\ ForwardOnly
    /\ [](run.use_mpi /\ Phase = 1 =>
             Outstanding # {} \/ \A w \in Agents : Asking(w))

\* DISPATCHING with no batch outstanding: the first of three batches has
\* been answered, the second is not issued yet
C15_Witness ==
    /\ run.use_mpi
    /\ Phase = 1
    /\ n_batches = 3
    /\ task_index = 1
    /\ Outstanding = {}
    /\ \A w \in Agents : Asking(w)

\* the DONE messages on their way to the master, as <<agent, position>>
DonesUnderWay ==
    UNION {{<<w, i>> : i \in Tagged(to_master[w], DONE)} : w \in Agents}

\* C16: every DONE on its way to the master carries the index and the X and
\* Y coordinate sequences of a batch a START was sent for, with one
\* spectrum per pixel; and every START sent is, at any time, exactly one of:
\* still on its way, being worked on, answered by a DONE on its way, or
\* answered by a DONE the master has handled - so there is one DONE per
\* START and none without a START.
C16_DoneAnswersOneStart ==
    run.use_mpi =>
        /\ \A p \in DonesUnderWay :
               LET m == to_master[p[1]][p[2]] IN
               /\ Count(start_log, m.index) = 1
               /\ m.indX = divX[m.index + 1]
               /\ m.indY = divY[m.index + 1]
               /\ Len(m.stokes) = Len(m.indX)
        /\ \A k \in DOMAIN n_done :
               Count(start_log, k) =
                   Cardinality(StartCopies(k)) + Cardinality(WorkCopies(k))
                       + Cardinality(DoneCopies(k)) + n_done[k]

\* the second batch is answered by a DONE on its way that names other
\* columns than rows, after the first batch's DONE was handled
C16_Witness ==
    /\ run.use_mpi
    /\ n_batches >= 2
    /\ n_done[0] = 1
    /\ \E p \in DonesUnderWay :
           /\ to_master[p[1]][p[2]].index = 1
           /\ to_master[p[1]][p[2]].indX # to_master[p[1]][p[2]].indY

\* agent w has sent a READY
SentReady(w) ==
    \/ wpc[w] \in {"recv", "synth", "send_exit", "exited"}
    \/ to_master[w] # <<>>

\* agent w is in the request loop of mpi_agents_work
InRequestLoop(w) ==
    wpc[w] \in {"send_ready", "recv", "synth", "send_exit", "exited"}

\* C17: when an agent has sent a READY, every agent holds the model of
\* rank 0, no copy is still on its way and rank 0 is past its broadcast;
\* and an agent in its request loop has run init_sir on the model it
\* received.
C17_ReadyAfterBroadcast ==
    run.use_mpi =>
        /\ \A w \in Agents : SentReady(w) =>
               /\ \A v \in Agents : self_model[v] \in {"model", "ready"}
               /\ bcast_buf = {}
               /\ mpc \notin {"use_model", "in_barrier1", "bcast"}
               /\ self_model[0] = "model"
        /\ \A w \in Agents : InRequestLoop(w) => self_model[w] = "ready"

\* one agent has sent its READY while the other, past the second Barrier,
\* has not run init_sir yet
C17_Witness ==
    /\ run.use_mpi
    /\ num_workers = 2
    /\ SentReady(1)
    /\ wpc[2] = "init_sir"
    /\ self_model[2] = "model"

\* pixel p comes before pixel q in raster order (y outer, x inner)
RasterLess(p, q) == p[1] < q[1] \/ (p[1] = q[1] /\ p[2] < q[2])

\* the i-th pixel of batch k (1-based position in divX, divY), as (y, x)
BatchPixel(k, i) == <<divY[k][i], divX[k][i]>>

TasksWith(w) ==
    Cardinality(Tagged(to_agent[w], START))
        + (IF data_received[w] # <<>> THEN 1 ELSE 0)
        + Cardinality(Tagged(to_master[w], DONE))

\* C19: an agent never has more than one task; the batches issued and not
\* yet handled by the master are never more than the agents; and a DONE of
\* an agent is ahead of its next READY, so the master handles the DONE
\* first and never answers a READY of an agent whose DONE is waiting.
C19_OneTaskPerAgent ==
    run.use_mpi =>
        /\ \A w \in Agents : TasksWith(w) <= 1
        /\ Cardinality(Outstanding) <= num_workers
        /\ \A w \in Agents : \A i \in Tagged(to_master[w], DONE) :
               \A j \in Tagged(to_master[w], READY) : i < j
        /\ \A w \in Agents :
               (to_agent[w] # <<>> \/ wpc[w] = "synth") =>
                   Tagged(to_master[w], DONE) = {}

\* two agents, each with a task: one at work, the other with its DONE and
\* its next READY waiting for the master
C19_Witness ==
    /\ run.use_mpi
    /\ num_workers = 2
    /\ Cardinality(Outstanding) = 2
    /\ \E w \in Agents : wpc[w] = "synth"
    /\ \E w \in Agents :
           /\ Len(to_master[w]) = 2
           /\ to_master[w][1].tag = DONE
           /\ to_master[w][2].tag = READY

\* C20: when the batch size b is at most the pixel count, every batch the
\* master has built holds at least b and at most 2 * b - 1 pixels.
C20_BatchSizeBounds ==
    (run.use_mpi /\ mpc # "run_all_pixels" /\ RangeInGrid
        /\ n_pixels >= run.batch /\ run.batch >= 1) =>
        /\ mpc = "loop"
        /\ Len(divX) >= 1
        /\ \A k \in 1..Len(divX) :
               /\ Len(divX[k]) >= run.batch
               /\ Len(divX[k]) <= 2 * run.batch - 1
               /\ Len(divY[k]) = Len(divX[k])

\* two batches for batch size b >= 2, one of 2 * b - 1 pixels and one of b
C20_Witness ==
    /\ run.use_mpi
    /\ mpc = "loop"
    /\ run.batch >= 2
    /\ n_batches = 2
    /\ Len(divX[1]) = 2 * run.batch - 1
    /\ Len(divX[2]) = run.batch

====
